---- MODULE Spec2Model ----
(***************************************************************************)
(* GeoData (src/GeoData.cpp): the path filter (TestPath and                *)
(* InitializePathSubstringLists over the two static substring lists) and   *)
(* the mesh extractor (the GeoData constructor, operator bool, Reset and    *)
(* GetVertices).                                                           *)
(*                                                                         *)
(* Strings that the code searches or splits are sequences of one-character *)
(* strings.  A read of the scene graph returns a success flag and a value: *)
(* [ok |-> BOOLEAN, val |-> ...].                                          *)
(***************************************************************************)
EXTENDS Integers, Sequences, FiniteSets

VARIABLES
    \* ---- path filter: the two static lists, and the last call made
    requireGeomPathSubstring,
    ignoreGeomPathSubstring,
    call,
    \* ---- the constructor's arguments and the scene it reads
    prim, uvSet, frames, keepCentered, model, readFloat2AsUV,
    \* ---- the constructor's position and locals
    pc, isTopologyVarying, iFrame, log,
    \* ---- the snapshot (the object's fields)
    m_vertexIndices, m_faceCounts, m_faceSelectionIndices,
    m_uvs, m_uvIndices, m_normals, m_normalIndices,
    m_vertices,
    m_creaseIndices, m_creaseLengths, m_creaseSharpness,
    m_cornerIndices, m_cornerSharpness, m_holeIndices,
    m_isSubdivMesh, m_subdivisionScheme, m_interpolateBoundary,
    m_faceVaryingLinearInterpolation, m_propagateCorner,
    \* ---- the time codes the constructor handed to the scene-graph reads
    timeUsed, pointTimes, xformTimes,
    \* ---- the last GetVertices call on the snapshot and what it returned
    got

filterVars == <<requireGeomPathSubstring, ignoreGeomPathSubstring, call>>
argVars    == <<prim, uvSet, frames, keepCentered, model, readFloat2AsUV>>
topoVars   == <<m_vertexIndices, m_faceCounts, m_faceSelectionIndices>>
uvVars     == <<m_uvs, m_uvIndices>>
normalVars == <<m_normals, m_normalIndices>>
subdivVars == <<m_creaseIndices, m_creaseLengths, m_creaseSharpness,
                m_cornerIndices, m_cornerSharpness, m_holeIndices,
                m_isSubdivMesh, m_subdivisionScheme, m_interpolateBoundary,
                m_faceVaryingLinearInterpolation, m_propagateCorner>>
readVars   == <<timeUsed, pointTimes, xformTimes>>
ctorVars   == <<pc, isTopologyVarying, iFrame, log>>
retVars    == <<got>>
geoVars    == <<argVars, ctorVars, topoVars, uvVars, normalVars, m_vertices,
                subdivVars, readVars, retVars>>
vars       == <<filterVars, geoVars>>

----------------------------------------------------------------------------
(* Bounds *)

MaxPathLen == 2
MaxTimeSamples == 2
MaxFrames == 2

SeqsUpTo(S, n) == UNION {[1..k -> S] : k \in 0..n}

----------------------------------------------------------------------------
(* Path filter *)

PathAlphabet == {"a", "b"}
Paths == SeqsUpTo(PathAlphabet, MaxPathLen)

\* getenv: a null pointer (set = FALSE) or the variable's text
NullEnv == [set |-> FALSE, val |-> <<>>]
EnvText == { <<>>,
             <<",">>,
             <<"a">>,
             <<"b">>,
             <<"a", "b">>,
             <<"a", ",", "b">>,
             <<"b", ",", "a">>,
             <<",", "a", ",">>,
             <<"a", ",", ",", "b">>,
             <<"a", "b", ",", "b">> }
EnvValues == {NullEnv} \cup {[set |-> TRUE, val |-> t] : t \in EnvText}

npos == -1

\* std::string::find(s): the first position (from 0) where s occurs, or npos
Find(path, s) ==
    LET at == {p \in 0..(Len(path) - Len(s)) :
                  \A j \in 1..Len(s) : path[p + j] = s[j]}
    IN  IF at = {} THEN npos
        ELSE CHOOSE p \in at : \A q \in at : p <= q

\* TfStringTokenize(text, ","): the maximal runs of non-delimiter characters,
\* left to right; empty tokens are dropped
RECURSIVE Tokenize(_, _, _, _)
Tokenize(text, i, cur, out) ==
    IF i > Len(text)
    THEN IF cur = <<>> THEN out ELSE Append(out, cur)
    ELSE IF text[i] = ","
         THEN Tokenize(text, i + 1, <<>>,
                       IF cur = <<>> THEN out ELSE Append(out, cur))
         ELSE Tokenize(text, i + 1, Append(cur, text[i]), out)

TfStringTokenize(text) == Tokenize(text, 1, <<>>, <<>>)

\* the first loop of TestPath: requiredSubstringFound after scanning from i
RECURSIVE RequireScan(_, _, _, _)
RequireScan(path, list, i, found) ==
    IF i > Len(list) THEN found
    ELSE IF Find(path, list[i]) # npos THEN TRUE
         ELSE RequireScan(path, list, i + 1, FALSE)

\* the second loop of TestPath: FALSE as soon as an entry is found in path
RECURSIVE IgnoreScan(_, _, _)
IgnoreScan(path, list, i) ==
    IF i > Len(list) THEN TRUE
    ELSE IF Find(path, list[i]) # npos THEN FALSE
         ELSE IgnoreScan(path, list, i + 1)

TestPathLastRequireDecides(path) ==
    LET n == Len(requireGeomPathSubstring)
        requiredSubstringFound ==
            n = 0 \/ Find(path, requireGeomPathSubstring[n]) # npos
    IN  IF requiredSubstringFound = FALSE THEN FALSE
        ELSE IgnoreScan(path, ignoreGeomPathSubstring, 1)

TestPath(path) ==
    LET requiredSubstringFound ==
            RequireScan(path, requireGeomPathSubstring, 1, TRUE)
    IN  IF requiredSubstringFound = FALSE THEN FALSE
        ELSE IgnoreScan(path, ignoreGeomPathSubstring, 1)

NoCall == [op |-> "none", path |-> <<>>, result |-> FALSE,
           ignoreEnv |-> NullEnv, requireEnv |-> NullEnv]

CallTestPath ==
    /\ \E path \in Paths :
          call' = [op |-> "TestPath", path |-> path, result |-> TestPath(path),
                   ignoreEnv |-> NullEnv, requireEnv |-> NullEnv]
    /\ UNCHANGED <<requireGeomPathSubstring, ignoreGeomPathSubstring>>
    /\ UNCHANGED geoVars

ReloadAppends(list, env) ==
    IF env.set THEN list \o TfStringTokenize(env.val) ELSE list

\* one side of InitializePathSubstringLists: if (env) { clear(); list = tokens }
Reload(list, env) ==
    IF env.set THEN TfStringTokenize(env.val) ELSE list

InitializePathSubstringLists ==
    /\ \E ignoreEnv \in EnvValues, requireEnv \in EnvValues :
          /\ ignoreGeomPathSubstring' = Reload(ignoreGeomPathSubstring, ignoreEnv)
          /\ requireGeomPathSubstring' = Reload(requireGeomPathSubstring, requireEnv)
          /\ call' = [op |-> "InitializePathSubstringLists", path |-> <<>>,
                      result |-> FALSE,
                      ignoreEnv |-> ignoreEnv, requireEnv |-> requireEnv]
    /\ UNCHANGED geoVars

----------------------------------------------------------------------------
(* The scene a construction reads *)

Fail == [ok |-> FALSE, val |-> <<>>]
Ok(v) == [ok |-> TRUE, val |-> v]
NoToken == [ok |-> FALSE, val |-> ""]

TimeCodes == {"default", "earliest"}

\* an attribute read with UsdTimeCode::Default() or UsdTimeCode::EarliestTime()
Sampled(d, e) == [default |-> d, earliest |-> e]

\* a frame number as unsigned int (32 bits), held as <<high 16 bits, low 16 bits>>
ToUnsigned32(f) == <<(f \div 65536) % 65536, f % 65536>>

\* an unsigned 32-bit value as the int key of the vertex map
ToInt32(u) == (IF u[1] >= 32768 THEN u[1] - 65536 ELSE u[1]) * 65536 + u[2]

FrameValues == {-1, 1, 2}
FrameLists == SeqsUpTo(FrameValues, MaxFrames)
PointTimes == {ToUnsigned32(f) : f \in FrameValues}

\* transforms: the translations, as <<tx, ty, tz>>
IDENTITY == <<0, 0, 0>>
Shift == <<1, 0, 0>>
Xforms == {IDENTITY, Shift}
Mul(a, b) == <<a[1] + b[1], a[2] + b[2], a[3] + b[3]>>
GetInverse(m) == <<0 - m[1], 0 - m[2], 0 - m[3]>>

TriIndices == <<0, 1, 2>>
QuadIndices == <<0, 1, 2, 3>>
IndexArrays == {<<>>, TriIndices, QuadIndices}
CountArrays == {<<>>, <<3>>, <<4>>}
TriPoints == << <<0, 0, 0>>, <<1, 0, 0>>, <<0, 1, 0>> >>
PointArrays == {<<>>, TriPoints}
UvDefault == << <<0, 0>>, <<1, 0>>, <<0, 1>> >>
UvEarliest == << <<0, 0>>, <<1, 1>> >>
UvIndexDefault == <<2, 1, 0>>
UvIndexEarliest == <<1, 0, 1, 0>>
NormalsDefault == << <<0, 0, 1>> >>
NormalsEarliest == << <<0, 1, 0>>, <<1, 0, 0>> >>

Interpolations == {"vertex", "faceVarying", "uniform"}
TypeNames == {"TexCoord2fArray", "Float2Array", "FloatArray"}
SchemeTokens == {"none", "catmullClark", "loop", "bilinear", "other"}
BoundaryTokens == {"none", "edgeAndCorner", "edgeOnly", "other"}
FaceVaryingTokens == {"all", "none", "boundaries", "cornersPlus1",
                      "cornersPlus2", "other"}
TokenReads(S) == {NoToken} \cup {Ok(t) : t \in S}

\* a triangle with every attribute authored
BasePrim ==
    [isMesh |-> TRUE,
     numTimeSamples |-> 0,
     faceVertexIndices |-> Sampled(Ok(TriIndices), Ok(QuadIndices)),
     faceVertexCounts |-> Sampled(Ok(<<3>>), Ok(<<4>>)),
     primvarName |-> "st",
     interpolation |-> "faceVarying",
     typeName |-> "TexCoord2fArray",
     uvValues |-> Sampled(Ok(UvDefault), Ok(UvEarliest)),
     uvIndices |-> Sampled(Ok(UvIndexDefault), Ok(UvIndexEarliest)),
     normals |-> Sampled(Ok(NormalsDefault), Ok(NormalsEarliest)),
     points |-> [t \in PointTimes |-> Ok(TriPoints)],
     xform |-> IDENTITY,
     creaseIndices |-> Ok(<<0, 1>>),
     creaseLengths |-> Ok(<<2>>),
     creaseSharpnesses |-> Ok(<<5>>),
     cornerIndices |-> Ok(<<2>>),
     cornerSharpnesses |-> Ok(<<7>>),
     holeIndices |-> Ok(<<0>>),
     subdivisionScheme |-> Ok("catmullClark"),
     interpolateBoundary |-> Ok("edgeOnly"),
     faceVaryingLinearInterpolation |-> Ok("cornersPlus2")]

BaseArgs ==
    [prim |-> BasePrim, uvSet |-> "", frames |-> <<1>>, keepCentered |-> FALSE,
     model |-> [xform |-> IDENTITY], readFloat2AsUV |-> TRUE]

\* the node's type and topology attributes vary
TopologyInputs ==
    {[BaseArgs EXCEPT !.prim =
        [BasePrim EXCEPT !.isMesh = m, !.numTimeSamples = n,
                         !.faceVertexIndices = Sampled(id, ie),
                         !.faceVertexCounts = Sampled(cd, ce)]] :
     m \in BOOLEAN, n \in 0..MaxTimeSamples,
     id \in {Fail} \cup {Ok(a) : a \in IndexArrays},
     ie \in {Fail} \cup {Ok(a) : a \in IndexArrays},
     cd \in {Fail} \cup {Ok(a) : a \in CountArrays},
     ce \in {Fail} \cup {Ok(a) : a \in CountArrays}}

\* a UV set is requested; the primvar's declaration and readability vary
UvInputs ==
    {[BaseArgs EXCEPT !.uvSet = "st", !.readFloat2AsUV = f2,
        !.prim = [BasePrim EXCEPT !.numTimeSamples = n, !.primvarName = pv,
                                  !.interpolation = ip, !.typeName = ty,
                                  !.uvValues = Sampled(vd, ve),
                                  !.uvIndices = Sampled(xd, xe)]] :
     f2 \in BOOLEAN, n \in 0..MaxTimeSamples, pv \in {"st", "map1"},
     ip \in Interpolations, ty \in TypeNames,
     vd \in {Fail, Ok(UvDefault)}, ve \in {Fail, Ok(UvEarliest)},
     xd \in {Fail, Ok(UvIndexDefault)}, xe \in {Fail, Ok(UvIndexEarliest)}}

NormalInputs ==
    {[BaseArgs EXCEPT
        !.prim = [BasePrim EXCEPT !.numTimeSamples = n,
                                  !.normals = Sampled(nd, ne)]] :
     n \in 0..MaxTimeSamples,
     nd \in {Fail, Ok(NormalsDefault)}, ne \in {Fail, Ok(NormalsEarliest)}}

\* the requested frames and the points readable at each time vary
PointInputs ==
    {[BaseArgs EXCEPT !.frames = fr,
        !.prim = [BasePrim EXCEPT
                    !.faceVertexIndices = Sampled(id, Ok(QuadIndices)),
                    !.points = pts]] :
     fr \in FrameLists,
     id \in {Ok(<<>>), Ok(TriIndices)},
     pts \in [PointTimes -> {Fail} \cup {Ok(a) : a \in PointArrays}]}

\* the transforms and the centering flag vary
XformInputs ==
    {[BaseArgs EXCEPT !.frames = fr, !.keepCentered = kc,
        !.model = [xform |-> mx],
        !.prim = [BasePrim EXCEPT !.xform = px]] :
     fr \in FrameLists, kc \in BOOLEAN, mx \in Xforms, px \in Xforms}

SubdivTokenInputs ==
    {[BaseArgs EXCEPT
        !.prim = [BasePrim EXCEPT !.subdivisionScheme = s,
                                  !.interpolateBoundary = b,
                                  !.faceVaryingLinearInterpolation = fv]] :
     s \in TokenReads(SchemeTokens), b \in TokenReads(BoundaryTokens),
     fv \in TokenReads(FaceVaryingTokens)}

SubdivArrayInputs ==
    {[BaseArgs EXCEPT
        !.prim = [BasePrim EXCEPT !.creaseIndices = a1, !.creaseLengths = a2,
                                  !.creaseSharpnesses = a3,
                                  !.cornerIndices = a4,
                                  !.cornerSharpnesses = a5,
                                  !.holeIndices = a6]] :
     a1 \in {Fail, Ok(<<0, 1>>)}, a2 \in {Fail, Ok(<<2>>)},
     a3 \in {Fail, Ok(<<5>>)}, a4 \in {Fail, Ok(<<2>>)},
     a5 \in {Fail, Ok(<<7>>)}, a6 \in {Fail, Ok(<<0>>)}}

Inputs == TopologyInputs \cup UvInputs \cup NormalInputs \cup PointInputs
          \cup XformInputs \cup SubdivTokenInputs \cup SubdivArrayInputs

----------------------------------------------------------------------------
(* The GeoData constructor *)

EmptyMap == [k \in {} |-> <<>>]

\* the sequence 0, 1, ..., n-1 that a counting loop pushes back
Iota(n) == [x \in 1..n |-> x - 1]

\* VtVec2fArray / VtVec3fArray copied out as interleaved floats
Flatten2(a) == [i \in 1..(2 * Len(a)) |-> a[((i - 1) \div 2) + 1][((i - 1) % 2) + 1]]
Flatten3(a) == [i \in 1..(3 * Len(a)) |-> a[((i - 1) \div 3) + 1][((i - 1) % 3) + 1]]

\* a float*: NULL, or the address of element 0 of the vector stored under key
NULL == [null |-> TRUE, key |-> 0]
Data(k) == [null |-> FALSE, key |-> k]

NoGet == [called |-> FALSE, at |-> "", frameSample |-> 0, ptr |-> NULL]

Unread == [faceVertexIndices |-> "unread", faceVertexCounts |-> "unread",
           uvValues |-> "unread", uvIndices |-> "unread", normals |-> "unread"]

Constructing(in) ==
    /\ prim = in.prim /\ uvSet = in.uvSet /\ frames = in.frames
    /\ keepCentered = in.keepCentered /\ model = in.model
    /\ readFloat2AsUV = in.readFloat2AsUV
    /\ pc = "checkMesh" /\ isTopologyVarying = FALSE /\ iFrame = 0
    /\ log = <<>>
    /\ m_vertexIndices = <<>> /\ m_faceCounts = <<>>
    /\ m_faceSelectionIndices = <<>>
    /\ m_uvs = <<>> /\ m_uvIndices = <<>>
    /\ m_normals = <<>> /\ m_normalIndices = <<>>
    /\ m_vertices = EmptyMap
    /\ m_creaseIndices = <<>> /\ m_creaseLengths = <<>>
    /\ m_creaseSharpness = <<>> /\ m_cornerIndices = <<>>
    /\ m_cornerSharpness = <<>> /\ m_holeIndices = <<>>
    /\ m_isSubdivMesh = FALSE /\ m_subdivisionScheme = ""
    /\ m_interpolateBoundary = 0 /\ m_faceVaryingLinearInterpolation = 0
    /\ m_propagateCorner = 0
    /\ timeUsed = Unread /\ pointTimes = <<>> /\ xformTimes = <<>>
    /\ got = NoGet

FilterIdle ==
    /\ requireGeomPathSubstring = <<>>
    /\ ignoreGeomPathSubstring = <<>>
    /\ call = NoCall

\* the constructor has run its Init block (lines 77-81) on some input
Init == FilterIdle /\ \E in \in Inputs : Constructing(in)

\* log.push_back(msg); return;
Stop(msg) ==
    /\ log' = Append(log, msg)
    /\ pc' = "done"

\* mesh.GetFaceVertexIndicesAttr().GetNumTimeSamples() >= 1
TopologyVarying(numTimeSamples) == numTimeSamples >= 1

CheckMesh ==
    /\ pc = "checkMesh"
    /\ IF ~prim.isMesh
       THEN /\ Stop("Invalid non-mesh prim")
            /\ UNCHANGED isTopologyVarying
       ELSE /\ isTopologyVarying' = TopologyVarying(prim.numTimeSamples)
            /\ pc' = "faceVertexIndices"
            /\ UNCHANGED log
    /\ UNCHANGED <<filterVars, retVars, argVars, iFrame, topoVars, uvVars, normalVars,
                   m_vertices, subdivVars, readVars>>

\* isTopologyVarying ? EarliestTime() : Default(), as each read spells it
FaceVertexIndicesTime == IF isTopologyVarying THEN "earliest" ELSE "default"
FaceVertexCountsTime == IF isTopologyVarying THEN "earliest" ELSE "default"
UvIndicesTime == IF isTopologyVarying THEN "earliest" ELSE "default"
NormalsTime == IF isTopologyVarying THEN "earliest" ELSE "default"
\* uvPrimvar.Get(&values, UsdTimeCode::EarliestTime())
UvValuesTime == "earliest"

ReadFaceVertexIndices ==
    /\ pc = "faceVertexIndices"
    /\ LET tc == FaceVertexIndicesTime
           vertsIndicesArray == prim.faceVertexIndices[tc]
       IN  /\ timeUsed' = [timeUsed EXCEPT !.faceVertexIndices = tc]
           /\ IF ~vertsIndicesArray.ok
              THEN /\ Stop("Failed getting faces")
                   /\ UNCHANGED m_vertexIndices
              ELSE /\ m_vertexIndices' = vertsIndicesArray.val
                   /\ pc' = "faceCounts"
                   /\ UNCHANGED log
    /\ UNCHANGED <<filterVars, retVars, argVars, isTopologyVarying, iFrame, m_faceCounts,
                   m_faceSelectionIndices, uvVars, normalVars, m_vertices,
                   subdivVars, pointTimes, xformTimes>>

ReadFaceCounts ==
    /\ pc = "faceCounts"
    /\ LET tc == FaceVertexCountsTime
           nvertsPerFaceArray == prim.faceVertexCounts[tc]
       IN  /\ timeUsed' = [timeUsed EXCEPT !.faceVertexCounts = tc]
           /\ IF ~nvertsPerFaceArray.ok
              THEN /\ Stop("Failed getting faces")
                   /\ UNCHANGED m_faceCounts
              ELSE /\ m_faceCounts' = nvertsPerFaceArray.val
                   /\ pc' = "faceSelection"
                   /\ UNCHANGED log
    /\ UNCHANGED <<filterVars, retVars, argVars, isTopologyVarying, iFrame,
                   m_vertexIndices, m_faceSelectionIndices, uvVars, normalVars,
                   m_vertices, subdivVars, pointTimes, xformTimes>>

FaceSelectionOneBased(faceCounts) == [x \in 1..Len(faceCounts) |-> x]

\* for (x = 0; x < m_faceCounts.size(); ++x) push_back(x)
FaceSelection(faceCounts) == Iota(Len(faceCounts))

CreateFaceSelectionIndices ==
    /\ pc = "faceSelection"
    /\ m_faceSelectionIndices' = m_faceSelectionIndices \o FaceSelection(m_faceCounts)
    /\ pc' = "uvs"
    /\ UNCHANGED <<filterVars, retVars, argVars, isTopologyVarying, iFrame, log,
                   m_vertexIndices, m_faceCounts, uvVars, normalVars,
                   m_vertices, subdivVars, readVars>>

UvAcceptedAnyType(interpolation, typeName) ==
    interpolation = "vertex" \/ interpolation = "faceVarying"

\* the interpolation and type test of lines 141-142
UvAccepted(interpolation, typeName) ==
    /\ interpolation = "vertex" \/ interpolation = "faceVarying"
    /\ \/ typeName = "TexCoord2fArray"
       \/ (readFloat2AsUV /\ typeName = "Float2Array")

UvIndicesAlwaysIdentity(indices) ==
    m_uvIndices \o Iota(Len(m_vertexIndices))

\* lines 149-162: the explicit index array, or a counting loop over the corners
UvIndices(indices) ==
    IF indices.ok THEN indices.val
    ELSE m_uvIndices \o Iota(Len(m_vertexIndices))

ReadUvs ==
    /\ pc = "uvs"
    /\ IF uvSet # ""
       THEN IF prim.primvarName = uvSet
            THEN IF UvAccepted(prim.interpolation, prim.typeName)
                 THEN LET values == prim.uvValues[UvValuesTime]
                          indices == prim.uvIndices[UvIndicesTime]
                      IN  IF values.ok
                          THEN /\ m_uvIndices' = UvIndices(indices)
                               /\ m_uvs' = Flatten2(values.val)
                               /\ timeUsed' = [timeUsed EXCEPT
                                                 !.uvValues = UvValuesTime,
                                                 !.uvIndices = UvIndicesTime]
                               /\ pc' = "normals"
                               /\ UNCHANGED log
                          ELSE /\ Stop("discarding because could not read uvs")
                               /\ timeUsed' = [timeUsed EXCEPT
                                                 !.uvValues = UvValuesTime]
                               /\ UNCHANGED uvVars
                 ELSE /\ Stop("Discarding because Vertex or Facevarying interpolation is not defined")
                      /\ UNCHANGED <<uvVars, timeUsed>>
            ELSE /\ Stop("Discarding invalid uv set")
                 /\ UNCHANGED <<uvVars, timeUsed>>
       ELSE /\ pc' = "normals"
            /\ UNCHANGED <<log, uvVars, timeUsed>>
    /\ UNCHANGED <<filterVars, retVars, argVars, isTopologyVarying, iFrame, topoVars,
                   normalVars, m_vertices, subdivVars, pointTimes, xformTimes>>

ReadNormals ==
    /\ pc = "normals"
    /\ LET tc == NormalsTime
           normalsVt == prim.normals[tc]
       IN  /\ timeUsed' = [timeUsed EXCEPT !.normals = tc]
           /\ IF normalsVt.ok
              THEN /\ m_normals' = Flatten3(normalsVt.val)
                   /\ m_normalIndices' =
                          m_normalIndices \o Iota(Len(m_vertexIndices))
              ELSE UNCHANGED normalVars
    /\ pc' = "frames"
    /\ UNCHANGED <<filterVars, retVars, argVars, isTopologyVarying, iFrame, log,
                   topoVars, uvVars, m_vertices, subdivVars, pointTimes,
                   xformTimes>>

----------------------------------------------------------------------------
(* Per-frame vertex baking, subdivision metadata *)

\* p = p * fullXform for every (x, y, z, 1) of the interleaved points
Transform(points, fullXform) ==
    [i \in 1..Len(points) |-> points[i] + fullXform[((i - 1) % 3) + 1]]

\* lines 245-252: the prim's local-to-world transform, re-based when centered
FullXform ==
    IF keepCentered THEN Mul(prim.xform, GetInverse(model.xform))
    ELSE prim.xform

\* m_vertices[frameSample] = points
Store(map, key, points) ==
    [k \in (DOMAIN map) \cup {key} |-> IF k = key THEN points ELSE map[k]]

BakedKeepsGoingOnFailure(pointsVt) == TRUE

\* if (!mesh.GetPointsAttr().Get(&pointsVt, frameSample)) ... return
PointsReadable(pointsVt) == pointsVt.ok

BakeFrame ==
    /\ pc = "frames"
    /\ iFrame < Len(frames)
    /\ LET frameSample == ToUnsigned32(frames[iFrame + 1])
           currentTime == frameSample
           pointsVt == prim.points[frameSample]
           points == Flatten3(pointsVt.val)
           fullXform == FullXform
           baked == IF fullXform # IDENTITY THEN Transform(points, fullXform)
                    ELSE points
       IN  /\ pointTimes' = Append(pointTimes, frameSample)
           /\ IF ~PointsReadable(pointsVt)
              THEN /\ Stop("Failed getting faces")
                   /\ UNCHANGED <<iFrame, m_vertices, xformTimes>>
              ELSE /\ xformTimes' = Append(xformTimes, currentTime)
                   /\ m_vertices' = Store(m_vertices, ToInt32(frameSample), baked)
                   /\ iFrame' = iFrame + 1
                   /\ UNCHANGED <<pc, log>>
    /\ UNCHANGED <<filterVars, retVars, argVars, isTopologyVarying, topoVars, uvVars,
                   normalVars, subdivVars, timeUsed>>

\* an optional array: stored if the read succeeds, left as it was otherwise
Optional(read, old) == IF read.ok THEN read.val ELSE old

SchemeName(token, old) ==
    IF token = "catmullClark" THEN "catmullClark"
    ELSE IF token = "loop" THEN "loop"
    ELSE IF token = "bilinear" THEN "bilinear"
    ELSE old

BoundaryCode(read, old) ==
    IF ~read.ok THEN old
    ELSE IF read.val = "none" THEN 0
    ELSE IF read.val = "edgeAndCorner" THEN 1
    ELSE IF read.val = "edgeOnly" THEN 2
    ELSE old

\* <<m_faceVaryingLinearInterpolation, m_propagateCorner>>
FaceVaryingCode(read, old) ==
    IF ~read.ok THEN old
    ELSE IF read.val = "all" THEN <<0, old[2]>>
    ELSE IF read.val = "none" THEN <<2, old[2]>>
    ELSE IF read.val = "boundaries" THEN <<3, old[2]>>
    ELSE IF read.val = "cornersPlus1" THEN <<1, 0>>
    ELSE IF read.val = "cornersPlus2" THEN <<1, 1>>
    ELSE old

SubdivOld ==
    [isSubdivMesh |-> FALSE,
     subdivisionScheme |-> m_subdivisionScheme,
     interpolateBoundary |-> m_interpolateBoundary,
     faceVaryingLinearInterpolation |-> m_faceVaryingLinearInterpolation,
     propagateCorner |-> m_propagateCorner]

SubdivMapped(mesh) ==
    LET fv == FaceVaryingCode(mesh.faceVaryingLinearInterpolation,
                              <<m_faceVaryingLinearInterpolation,
                                m_propagateCorner>>)
    IN  [isSubdivMesh |-> TRUE,
         subdivisionScheme |->
             SchemeName(mesh.subdivisionScheme.val, m_subdivisionScheme),
         interpolateBoundary |->
             BoundaryCode(mesh.interpolateBoundary, m_interpolateBoundary),
         faceVaryingLinearInterpolation |-> fv[1],
         propagateCorner |-> fv[2]]

SubdivisionNoneStillMapsCodes(mesh) ==
    IF ~mesh.subdivisionScheme.ok THEN SubdivOld
    ELSE [SubdivMapped(mesh) EXCEPT
            !.isSubdivMesh = (mesh.subdivisionScheme.val # "none"),
            !.subdivisionScheme =
                IF mesh.subdivisionScheme.val = "none" THEN m_subdivisionScheme
                ELSE @]

\* lines 372-444: the scheme token decides whether the codes are mapped at all
Subdivision(mesh) ==
    IF ~mesh.subdivisionScheme.ok THEN SubdivOld
    ELSE IF mesh.subdivisionScheme.val = "none" THEN SubdivOld
    ELSE SubdivMapped(mesh)

ReadOpenSubdiv ==
    /\ pc = "frames"
    /\ iFrame >= Len(frames)
    /\ m_creaseIndices' = Optional(prim.creaseIndices, m_creaseIndices)
    /\ m_creaseLengths' = Optional(prim.creaseLengths, m_creaseLengths)
    /\ m_creaseSharpness' = Optional(prim.creaseSharpnesses, m_creaseSharpness)
    /\ m_cornerIndices' = Optional(prim.cornerIndices, m_cornerIndices)
    /\ m_cornerSharpness' = Optional(prim.cornerSharpnesses, m_cornerSharpness)
    /\ m_holeIndices' = Optional(prim.holeIndices, m_holeIndices)
    /\ LET s == Subdivision(prim)
       IN  /\ m_isSubdivMesh' = s.isSubdivMesh
           /\ m_subdivisionScheme' = s.subdivisionScheme
           /\ m_interpolateBoundary' = s.interpolateBoundary
           /\ m_faceVaryingLinearInterpolation' = s.faceVaryingLinearInterpolation
           /\ m_propagateCorner' = s.propagateCorner
    /\ pc' = "done"
    /\ UNCHANGED <<filterVars, retVars, argVars, isTopologyVarying, iFrame, log,
                   topoVars, uvVars, normalVars, m_vertices, readVars>>

\* m_vertices.begin()->first: the smallest key of the ordered map
FirstKey == CHOOSE k \in DOMAIN m_vertices : \A j \in DOMAIN m_vertices : k <= j

\* GeoData::operator bool
OperatorBool ==
    /\ Cardinality(DOMAIN m_vertices) > 0
    /\ Len(m_vertices[FirstKey]) > 0
    /\ Len(m_vertexIndices) > 0

\* the snapshot is constructed (and possibly reset): its methods can be called
Constructed == pc \in {"done", "reset"}

ResetKeepsVertices == m_vertices

\* m_vertices.clear()
ResetVertices == EmptyMap

\* GeoData::Reset: every vector and the map are cleared; the five subdivision
\* scalars are not touched
Reset ==
    /\ Constructed
    /\ m_vertexIndices' = <<>> /\ m_faceCounts' = <<>>
    /\ m_faceSelectionIndices' = <<>>
    /\ m_vertices' = ResetVertices
    /\ m_normalIndices' = <<>> /\ m_normals' = <<>>
    /\ m_uvIndices' = <<>> /\ m_uvs' = <<>>
    /\ m_creaseIndices' = <<>> /\ m_creaseLengths' = <<>>
    /\ m_creaseSharpness' = <<>> /\ m_cornerIndices' = <<>>
    /\ m_cornerSharpness' = <<>> /\ m_holeIndices' = <<>>
    /\ pc' = "reset"
    /\ UNCHANGED <<filterVars, retVars, argVars, isTopologyVarying, iFrame, log,
                   m_isSubdivMesh, m_subdivisionScheme, m_interpolateBoundary,
                   m_faceVaryingLinearInterpolation, m_propagateCorner,
                   readVars>>

\* the frame numbers GetVertices is asked for: the requested ones and one more
GetFrames == FrameValues \cup {0}

\* &(v[0]): element 0 of the vector under key k; on an empty vector the
\* expression is undefined, the address is the null or a non-null data pointer
FirstElement(k) ==
    IF Len(m_vertices[k]) > 0 THEN {Data(k)} ELSE {NULL, Data(k)}

\* GeoData::GetVertices: the pointers a call can return
GetVertices(frameSample) ==
    IF Cardinality(DOMAIN m_vertices) > 0
    THEN IF frameSample \in DOMAIN m_vertices
         THEN FirstElement(frameSample)
         ELSE FirstElement(FirstKey)
    ELSE {NULL}

CallGetVertices ==
    /\ Constructed
    /\ \E frameSample \in GetFrames :
          \E ptr \in GetVertices(frameSample) :
             got' = [called |-> TRUE, at |-> pc, frameSample |-> frameSample,
                     ptr |-> ptr]
    /\ UNCHANGED <<filterVars, argVars, ctorVars, topoVars, uvVars, normalVars,
                   m_vertices, subdivVars, readVars>>

Next ==
    \/ CheckMesh
    \/ ReadFaceVertexIndices
    \/ ReadFaceCounts
    \/ CreateFaceSelectionIndices
    \/ ReadUvs
    \/ ReadNormals
    \/ BakeFrame
    \/ ReadOpenSubdiv
    \/ Reset
    \/ CallGetVertices

Spec == Init /\ [][Next]_vars

----------------------------------------------------------------------------
(* The path filter on its own: the lists start empty, no construction runs *)

FilterInit == FilterIdle /\ Constructing(BaseArgs)

FilterNext ==
    \/ CallTestPath
    \/ InitializePathSubstringLists

FilterSpec == FilterInit /\ [][FilterNext]_vars

----------------------------------------------------------------------------
(* Properties of the path filter (checked under FilterSpec) *)

IsSubstring(s, path) ==
    \E p \in 0..(Len(path) - Len(s)) : SubSeq(path, p + 1, p + Len(s)) = s

AnyIn(list, path) == \E i \in DOMAIN list : IsSubstring(list[i], path)

Accept(path) ==
    /\ requireGeomPathSubstring = <<>> \/ AnyIn(requireGeomPathSubstring, path)
    /\ ~AnyIn(ignoreGeomPathSubstring, path)

\* C1: TestPath(path) is true exactly when (the require-list is empty or one
\* of its entries is a substring of path) and no ignore-list entry is a
\* substring of path, and the call leaves both lists as they were.
C1_TestPath ==
    [][call'.op = "TestPath" =>
          /\ call'.result = Accept(call'.path)
          /\ UNCHANGED <<requireGeomPathSubstring, ignoreGeomPathSubstring>>]_vars

\* a path that a require entry (not the first one) matches and an ignore entry
\* matches too was tested, and rejected
C1_Witness ==
    /\ call.op = "TestPath"
    /\ Len(requireGeomPathSubstring) = 2
    /\ ~IsSubstring(requireGeomPathSubstring[1], call.path)
    /\ IsSubstring(requireGeomPathSubstring[2], call.path)
    /\ AnyIn(ignoreGeomPathSubstring, call.path)
    /\ call.result = FALSE

\* the comma-separated fields of text that are not empty, by position
FieldStarts(text) ==
    {i \in 1..Len(text) : text[i] # "," /\ (i = 1 \/ text[i - 1] = ",")}
FieldEnd(text, i) ==
    CHOOSE j \in i..Len(text) :
        /\ \A k \in i..j : text[k] # ","
        /\ j = Len(text) \/ text[j + 1] = ","
KthStart(text, k) ==
    CHOOSE i \in FieldStarts(text) :
        Cardinality({j \in FieldStarts(text) : j < i}) = k - 1
CommaSplit(text) ==
    [k \in 1..Cardinality(FieldStarts(text)) |->
        SubSeq(text, KthStart(text, k), FieldEnd(text, KthStart(text, k)))]

\* C10 as stated: a side is replaced by the comma-split of its variable
\* exactly when the variable is present and non-empty, and is left as it was
\* otherwise.
C10_Original ==
    [][call'.op = "InitializePathSubstringLists" =>
          /\ ignoreGeomPathSubstring' =
                IF call'.ignoreEnv.set /\ call'.ignoreEnv.val # <<>>
                THEN CommaSplit(call'.ignoreEnv.val)
                ELSE ignoreGeomPathSubstring
          /\ requireGeomPathSubstring' =
                IF call'.requireEnv.set /\ call'.requireEnv.val # <<>>
                THEN CommaSplit(call'.requireEnv.val)
                ELSE requireGeomPathSubstring]_vars

\* C10, amended: a side is replaced (not appended to) by the comma-split of
\* its variable exactly when the variable is present, an empty value included
\* (the list becomes empty); an absent variable leaves its side as it was, and
\* neither side's reload touches the other side.
C10_Reload ==
    [][call'.op = "InitializePathSubstringLists" =>
          /\ ignoreGeomPathSubstring' =
                IF call'.ignoreEnv.set
                THEN CommaSplit(call'.ignoreEnv.val)
                ELSE ignoreGeomPathSubstring
          /\ requireGeomPathSubstring' =
                IF call'.requireEnv.set
                THEN CommaSplit(call'.requireEnv.val)
                ELSE requireGeomPathSubstring]_vars

\* the ignore side was reloaded from a two-field value while the require
\* variable was absent and the require side kept its two entries
C10_Witness ==
    /\ call.op = "InitializePathSubstringLists"
    /\ ~call.requireEnv.set
    /\ Len(requireGeomPathSubstring) = 2
    /\ call.ignoreEnv.set
    /\ Len(ignoreGeomPathSubstring) = 2
    /\ ignoreGeomPathSubstring # requireGeomPathSubstring

----------------------------------------------------------------------------
(* Properties of the constructor (checked under Spec) *)

RECURSIVE SumSeq(_)
SumSeq(q) == IF q = <<>> THEN 0 ELSE Head(q) + SumSeq(Tail(q))

WasRead(attr) == timeUsed[attr] # "unread"
ReadOf(attr) == prim[attr][timeUsed[attr]]

NotMesh == ~prim.isMesh
FaceIndicesUnreadable ==
    WasRead("faceVertexIndices") /\ ~ReadOf("faceVertexIndices").ok
FaceCountsUnreadable ==
    WasRead("faceVertexCounts") /\ ~ReadOf("faceVertexCounts").ok
PastFaceCounts ==
    WasRead("faceVertexCounts") /\ ReadOf("faceVertexCounts").ok
\* ... and Reset has not cleared the snapshot since
HoldsTopology == PastFaceCounts /\ pc # "reset"
UvSetAbsent == PastFaceCounts /\ uvSet # "" /\ prim.primvarName # uvSet
UvNotAccepted ==
    /\ PastFaceCounts /\ uvSet # "" /\ prim.primvarName = uvSet
    /\ ~ /\ prim.interpolation \in {"vertex", "faceVarying"}
         /\ \/ prim.typeName = "TexCoord2fArray"
            \/ readFloat2AsUV /\ prim.typeName = "Float2Array"
UvValuesUnreadable == WasRead("uvValues") /\ ~prim.uvValues[timeUsed.uvValues].ok

StoppedBeforeBaking ==
    /\ pc = "done"
    /\ \/ NotMesh \/ FaceIndicesUnreadable \/ FaceCountsUnreadable
       \/ UvSetAbsent \/ UvNotAccepted \/ UvValuesUnreadable

\* C2 as stated: once construction is over, the snapshot converts to true
\* exactly when vertexIndices is non-empty and some stored frame has a
\* non-empty vertex sequence.  (Stated for requested frames >= 0, whose order
\* in the map is the same for a signed and an unsigned key.)
C2_Original ==
    (pc = "done" /\ \A i \in DOMAIN frames : frames[i] >= 0) =>
        (OperatorBool <=>
            /\ Len(m_vertexIndices) > 0
            /\ \E k \in DOMAIN m_vertices : Len(m_vertices[k]) > 0)

\* C3: a construction that stops before per-frame baking leaves the vertex
\* mapping without any frame, converts to false and has appended exactly one
\* log entry; for a requested UV set the node lacks, that entry is the
\* "invalid uv set" one.
C3_EarlyStop ==
    StoppedBeforeBaking =>
        /\ DOMAIN m_vertices = {}
        /\ ~OperatorBool
        /\ Len(log) = 1
        /\ UvSetAbsent => log = <<"Discarding invalid uv set">>

\* a requested UV set is absent from a node whose frame is readable
C3_Witness ==
    /\ pc = "done" /\ UvSetAbsent
    /\ frames # <<>> /\ \A i \in DOMAIN frames : prim.points[ToUnsigned32(frames[i])].ok

PointReadFailed ==
    /\ pc = "done"
    /\ pointTimes # <<>>
    /\ ~prim.points[pointTimes[Len(pointTimes)]].ok

\* C4: when the point read fails at the k-th requested frame, exactly the
\* frames before it are stored, one log entry has been appended, and the
\* subdivision metadata is untouched: isSubdivMesh false, scheme empty, codes
\* 0, crease/corner/hole sequences empty.
C4_FrameFailure ==
    PointReadFailed =>
        LET k == Len(pointTimes)
        IN  /\ DOMAIN m_vertices = {frames[i] : i \in 1..(k - 1)}
            /\ Len(log) = 1
            /\ m_isSubdivMesh = FALSE /\ m_subdivisionScheme = ""
            /\ m_interpolateBoundary = 0
            /\ m_faceVaryingLinearInterpolation = 0 /\ m_propagateCorner = 0
            /\ m_creaseIndices = <<>> /\ m_creaseLengths = <<>>
            /\ m_creaseSharpness = <<>> /\ m_cornerIndices = <<>>
            /\ m_cornerSharpness = <<>> /\ m_holeIndices = <<>>

\* the second of two distinct frames failed on a node that has a subdivision
\* scheme and creases to read
C4_Witness ==
    /\ PointReadFailed
    /\ Len(pointTimes) = 2 /\ frames[1] # frames[2]
    /\ frames[1] \in DOMAIN m_vertices
    /\ prim.subdivisionScheme = Ok("catmullClark") /\ prim.creaseIndices.ok

\* C5 as stated: the mesh is topology-varying exactly when the face-index
\* attribute has more than one time sample; with 0 or 1 samples the face
\* indices, face counts and normals are read at the default time, with 2 or
\* more at the earliest time.
C5_Original ==
    LET expected == IF prim.numTimeSamples > 1 THEN "earliest" ELSE "default"
    IN  /\ (prim.isMesh /\ pc # "checkMesh") =>
               (isTopologyVarying <=> prim.numTimeSamples > 1)
        /\ \A a \in {"faceVertexIndices", "faceVertexCounts", "normals"} :
               WasRead(a) => timeUsed[a] = expected

\* C6 as stated: the UV values are read at the earliest time if the mesh is
\* topology-varying and at the default time otherwise, the rule the topology
\* and the UV index array follow.
C6_Original ==
    WasRead("uvValues") =>
        /\ timeUsed.uvValues = IF isTopologyVarying THEN "earliest" ELSE "default"
        /\ timeUsed.uvValues = timeUsed.faceVertexIndices
        /\ WasRead("uvIndices") => timeUsed.uvValues = timeUsed.uvIndices

\* the UV step stored its arrays, and Reset has not cleared them since
UvsStored == WasRead("uvIndices") /\ pc # "reset"

\* C7: once a requested UV set is accepted and its values read, uvIndices is
\* the explicit index array verbatim if the index read succeeded, the
\* identity 0 .. Len(vertexIndices)-1 otherwise, and uvs is the values as
\* interleaved pairs in source order.
C7_UvIndices ==
    UvsStored =>
        LET indices == ReadOf("uvIndices")
            values == ReadOf("uvValues").val
        IN  /\ indices.ok => m_uvIndices = indices.val
            /\ ~indices.ok =>
                  /\ Len(m_uvIndices) = Len(m_vertexIndices)
                  /\ \A i \in 1..Len(m_uvIndices) : m_uvIndices[i] = i - 1
            /\ Len(m_uvs) = 2 * Len(values)
            /\ \A i \in 1..Len(values) :
                  /\ m_uvs[2 * i - 1] = values[i][1]
                  /\ m_uvs[2 * i] = values[i][2]

\* an explicit index array that differs from the identity was stored
C7_WitnessExplicit ==
    /\ UvsStored /\ ReadOf("uvIndices").ok
    /\ m_uvIndices # Iota(Len(m_vertexIndices))
    /\ m_uvs # <<>>

SelectionIsIdentity ==
    /\ Len(m_faceSelectionIndices) = Len(m_faceCounts)
    /\ \A i \in 1..Len(m_faceSelectionIndices) : m_faceSelectionIndices[i] = i - 1

\* C8 as stated: past the face-count read, faceCounts sums to the length of
\* vertexIndices and faceSelectionIndices is the identity over the faces.
C8_Original ==
    HoldsTopology =>
        /\ SumSeq(m_faceCounts) = Len(m_vertexIndices)
        /\ pc # "faceSelection" => SelectionIsIdentity

\* C8, amended: past the face-count read, vertexIndices and faceCounts are the
\* node's two arrays as read at one and the same time code, so faceCounts sums
\* to the length of vertexIndices whenever the node's arrays at that time code
\* do (the constructor checks nothing); faceSelectionIndices is the identity
\* over the faces.
C8_Topology ==
    HoldsTopology =>
        /\ timeUsed.faceVertexIndices = timeUsed.faceVertexCounts
        /\ m_vertexIndices = ReadOf("faceVertexIndices").val
        /\ m_faceCounts = ReadOf("faceVertexCounts").val
        /\ SumSeq(ReadOf("faceVertexCounts").val) = Len(ReadOf("faceVertexIndices").val)
              => SumSeq(m_faceCounts) = Len(m_vertexIndices)
        /\ pc # "faceSelection" => SelectionIsIdentity

\* a consistent quad was read from the earliest sample and its one face selected
C8_Witness ==
    /\ PastFaceCounts /\ pc = "done"
    /\ timeUsed.faceVertexCounts = "earliest"
    /\ m_faceCounts = <<4>> /\ Len(m_vertexIndices) = 4
    /\ m_faceSelectionIndices = <<0>>

ReachedSubdivision == pc = "done" /\ log = <<>>

\* C9: when the subdivision phase runs and the scheme token is "none",
\* isSubdivMesh is false, the scheme name is empty and the three integer codes
\* are 0, whatever the boundary and face-varying attributes hold.
C9_SchemeNone ==
    (ReachedSubdivision /\ prim.subdivisionScheme = Ok("none")) =>
        /\ m_isSubdivMesh = FALSE
        /\ m_subdivisionScheme = ""
        /\ m_interpolateBoundary = 0
        /\ m_faceVaryingLinearInterpolation = 0
        /\ m_propagateCorner = 0

\* the scheme is "none" on a node whose other two attributes map to non-zero
\* codes
C9_Witness ==
    /\ ReachedSubdivision /\ prim.subdivisionScheme = Ok("none")
    /\ prim.interpolateBoundary = Ok("edgeOnly")
    /\ prim.faceVaryingLinearInterpolation = Ok("cornersPlus2")

----------------------------------------------------------------------------
(* Properties of Reset and of the frame conversion (checked under Spec) *)

AllSequencesEmpty ==
    /\ m_vertexIndices = <<>> /\ m_faceCounts = <<>>
    /\ m_faceSelectionIndices = <<>>
    /\ m_normals = <<>> /\ m_normalIndices = <<>>
    /\ m_uvs = <<>> /\ m_uvIndices = <<>>
    /\ m_creaseIndices = <<>> /\ m_creaseLengths = <<>>
    /\ m_creaseSharpness = <<>> /\ m_cornerIndices = <<>>
    /\ m_cornerSharpness = <<>> /\ m_holeIndices = <<>>

\* C11: after Reset on a constructed snapshot every sequence and the
\* frame-to-vertices mapping are empty, the snapshot converts to false, and
\* GetVertices returns NULL for every frame number, in calls made and in
\* calls that could be made.
C11_Reset ==
    pc = "reset" =>
        /\ AllSequencesEmpty
        /\ DOMAIN m_vertices = {}
        /\ ~OperatorBool
        /\ \A f \in GetFrames : GetVertices(f) = {NULL}
        /\ (got.called /\ got.at = "reset") => got.ptr = NULL

\* a complete construction with UVs, normals, a baked frame and creases was
\* reset, and GetVertices was then asked for the frame that had been baked
C11_Witness ==
    /\ pc = "reset"
    /\ log = <<>> /\ uvSet # "" /\ WasRead("uvIndices")
    /\ WasRead("normals") /\ ReadOf("normals").ok
    /\ prim.creaseIndices.ok
    /\ frames # <<>> /\ prim.points[ToUnsigned32(frames[1])].val # <<>>
    /\ got.called /\ got.at = "reset" /\ got.frameSample = frames[1]
    /\ got.ptr = NULL

\* the time of frame number f, as <<f div 2^16, f mod 2^16>>
ExactTime(f) == <<f \div 65536, f % 65536>>

\* C12 as stated: for every requested frame f, negative ones included, the
\* points are read at time exactly f, the transforms are evaluated at time
\* exactly f, and the baked triples are stored under key f.
C12_Original ==
    /\ \A i \in 1..Len(pointTimes) : pointTimes[i] = ExactTime(frames[i])
    /\ \A i \in 1..Len(xformTimes) :
          /\ xformTimes[i] = ExactTime(frames[i])
          /\ pc \notin {"reset"} => frames[i] \in DOMAIN m_vertices

====
